---- MODULE Spec2Model ----
(***************************************************************************)
(* Model of the april model-file reader of bowlby: ModelFile::new          *)
(* (src/src/model_file.rs) and the same sequence written out in main       *)
(* (src/src/main.rs).  The byte source is a sequence of bytes; every       *)
(* read decodes the bytes under the cursor the way binread's read_ne does  *)
(* on a little-endian target.                                              *)
(***************************************************************************)
EXTENDS Integers, Sequences, FiniteSets, TLC

VARIABLES
    file,            \* the byte source (fs::File / Cursor contents)
    inp,             \* the content the byte source was written from (ghost)
    entry,           \* "new": ModelFile::new, "main": fn main
    pc,              \* position of the running function
    pos,             \* cursor position of the byte source
    result,          \* [kind |-> "running" | "ok" | "err" | "panic", why]
    file_header,     \* ModelFileHeader as read
    language,
    name,
    description,
    model_type,
    meta,            \* ParamMetadata as read
    definitions,     \* Vec<NetworkDefinition> (Vec<Network> in main.rs)
    partial_params,  \* PartialParams as read
    tokens,          \* Vec<String>, each the bytes of the String
    networks,        \* Vec<Network> = Vec<Vec<u8>>, the blobs read
    params_returned, \* ParamMetadata::parse has returned Ok(params)
    ops              \* every read and seek performed on the source, in order

vars == <<file, inp, entry, pc, pos, result, file_header, language, name,
          description, model_type, meta, definitions, partial_params, tokens,
          networks, params_returned, ops>>

(***************************************************************************)
(* Bounds of the model.                                                    *)
(***************************************************************************)
MaxNumNetworksInput == 9
MaxModelTypeInput == 3
MaxTokens == 2
PadLen == 2

(***************************************************************************)
(* Program constants.                                                      *)
(***************************************************************************)
MAX_NETWORKS == 8
SegmentLimit == 100
MelFeaturesLimit == 256
SampleRateLimit == 144000
TokenCountLimit == 16384
FrameLengthMax == 5000
ModelLstmTransducerStateless == 1
ModelMax == 2

\* Values of 2^24 and more are not told apart: an unsigned field decodes to
\* Huge when any byte above the third is set.
Huge == 256 * 256 * 256

Magic == <<65, 80, 82, 73, 76, 77, 68, 76>>      \* "APRILMDL"

(***************************************************************************)
(* Byte helpers.                                                           *)
(***************************************************************************)
Take(s, p, n) == SubSeq(s, p + 1, p + n)

RECURSIVE Zeros(_)
Zeros(n) == IF n = 0 THEN <<>> ELSE <<0>> \o Zeros(n - 1)

\* little-endian encodings, as a writer of the documented layout produces
EncU32(v) == <<v % 256, (v \div 256) % 256, (v \div 65536) % 256, (v \div Huge) % 256>>
EncU64(v) == EncU32(v) \o <<0, 0, 0, 0>>
EncI32(v) == <<v % 256, (v \div 256) % 256, (v \div 65536) % 256, (v \div Huge) % 256>>

\* read_ne::<u32>() / read_ne::<u64>() on the bytes read
DecUnsigned(b) ==
    IF \E i \in 4..Len(b) : b[i] # 0 THEN Huge
    ELSE b[1] + 256 * b[2] + 65536 * b[3]

\* read_ne::<i32>() on the 4 bytes read
DecI32(b) ==
    b[1] + 256 * b[2] + 65536 * b[3]
    + Huge * (IF b[4] >= 128 THEN b[4] - 256 ELSE b[4])

(***************************************************************************)
(* std::str::from_utf8 and str::trim_matches('\x00') on byte strings.      *)
(***************************************************************************)
RECURSIVE Utf8Valid(_)
Utf8Valid(b) ==
    IF b = <<>> THEN TRUE
    ELSE LET c == b[1]
             n == Len(b)
             Cont(i) == i <= n /\ b[i] >= 128 /\ b[i] <= 191
         IN  IF c < 128 THEN Utf8Valid(Tail(b))
             ELSE IF c >= 194 /\ c <= 223
                  THEN Cont(2) /\ Utf8Valid(SubSeq(b, 3, n))
             ELSE IF c >= 224 /\ c <= 239
                  THEN /\ Cont(2) /\ Cont(3)
                       /\ (c = 224 => b[2] >= 160)
                       /\ (c = 237 => b[2] <= 159)
                       /\ Utf8Valid(SubSeq(b, 4, n))
             ELSE IF c >= 240 /\ c <= 244
                  THEN /\ Cont(2) /\ Cont(3) /\ Cont(4)
                       /\ (c = 240 => b[2] >= 144)
                       /\ (c = 244 => b[2] <= 143)
                       /\ Utf8Valid(SubSeq(b, 5, n))
             ELSE FALSE

RECURSIVE TrimStartNul(_)
TrimStartNul(s) ==
    IF s # <<>> /\ s[1] = 0 THEN TrimStartNul(Tail(s)) ELSE s

RECURSIVE TrimEndNul(_)
TrimEndNul(s) ==
    IF s # <<>> /\ s[Len(s)] = 0 THEN TrimEndNul(SubSeq(s, 1, Len(s) - 1)) ELSE s

\* .trim_matches('\x00'): the pattern is stripped from both ends
TrimMatchesNul(s) == TrimEndNul(TrimStartNul(s))

(***************************************************************************)
(* The contents a byte source is written from.  A content is a record of   *)
(* field values; Serialize lays it out as section 6 of the format gives    *)
(* it.  The contents enumerated are a valid base file with one group of    *)
(* related fields varied at a time.                                        *)
(***************************************************************************)
BadMagics == { <<65, 80, 82, 73, 76, 77, 68, 88>>,      \* "APRILMDX"
               <<0, 80, 82, 73, 76, 77, 68, 76>> }

Orders == {"asc", "desc", "rot", "over", "huge"}

BaseParams ==
    [batch_size |-> 1, segment_size |-> 2, segment_step |-> 1,
     mel_features |-> 1, sample_rate |-> 3, frame_shift_ms |-> 1,
     frame_length_ms |-> 1, round_pow2 |-> 1, mel_low |-> 1, mel_high |-> 2,
     snip_edges |-> 0, token_count |-> 2, blank_id |-> 0]

Tok(bytes) == [len |-> Len(bytes), bytes |-> bytes]

BaseTokens == << Tok(<<60, 98, 108, 97, 110, 107, 62>>), Tok(<<97>>) >>  \* "<blank>", "a"

BaseContent ==
    [magic |-> Magic, version |-> 1, header_size |-> 20,
     language |-> <<101, 110, 0, 0, 0, 0, 0, 0>>,        \* "en"
     name |-> <<109>>, description |-> <<>>,
     model_type |-> ModelLstmTransducerStateless,
     num_networks |-> 3, order |-> "asc",
     pp |-> BaseParams, toks |-> BaseTokens,
     cut |-> 0]                    \* bytes missing from the end of the file

TokenChoices ==
    { Tok(<<97>>), Tok(<<0, 97>>), Tok(<<97, 0>>), Tok(<<97, 0, 98>>),
      Tok(<<>>), Tok(<<0>>), Tok(<<195, 169>>), Tok(<<255>>),
      [len |-> 4096, bytes |-> <<97>>],
      [len |-> -1, bytes |-> <<>>],
      [len |-> (-128) * Huge, bytes |-> <<97>>] }

TokenLists == UNION { [1..n -> TokenChoices] : n \in 1..MaxTokens }

HeaderContents ==
    { [BaseContent EXCEPT !.magic = m, !.model_type = t,
                          !.num_networks = n, !.order = o] :
        m \in {Magic} \cup BadMagics, t \in 0..MaxModelTypeInput,
        n \in 0..MaxNumNetworksInput, o \in Orders }

WithParams(q) == [BaseContent EXCEPT !.pp = q]

SegmentContents ==
    { WithParams([BaseParams EXCEPT !.batch_size = b, !.segment_size = s,
                                    !.segment_step = t]) :
        b \in 0..2, s \in {0, 1, 2, SegmentLimit - 1, SegmentLimit},
        t \in {0, 1, 2, 3, SegmentLimit - 1, SegmentLimit} }

RateContents ==
    { WithParams([BaseParams EXCEPT !.mel_features = f, !.sample_rate = r]) :
        f \in {0, 1, MelFeaturesLimit - 1, MelFeaturesLimit},
        r \in {0, 1, 3, SampleRateLimit - 1, SampleRateLimit} }

VocabSizeContents ==
    { WithParams([BaseParams EXCEPT !.token_count = c, !.blank_id = k]) :
        c \in {0, 1, 2, 3, TokenCountLimit - 1, TokenCountLimit},
        k \in {-1, 0, 1, 2, 3, TokenCountLimit - 1, TokenCountLimit} }

FrameContents ==
    { WithParams([BaseParams EXCEPT !.frame_shift_ms = a, !.frame_length_ms = l]) :
        a \in {0, 1, 2, FrameLengthMax, FrameLengthMax + 1},
        l \in {0, 1, 2, FrameLengthMax, FrameLengthMax + 1} }

MelContents ==
    { WithParams([BaseParams EXCEPT !.sample_rate = r, !.mel_low = lo,
                                    !.mel_high = hi]) :
        r \in {1, 3, 4}, lo \in 0..4, hi \in -1..4 }

TokenContents ==
    { [BaseContent EXCEPT !.toks = l,
                          !.pp = [BaseParams EXCEPT !.token_count = Len(l)]] :
        l \in TokenLists }


(***************************************************************************)
(* The layout of a content.                                                *)
(***************************************************************************)
RECURSIVE TokenBytes(_)
TokenBytes(l) ==
    IF l = <<>> THEN <<>>
    ELSE EncI32(l[1].len) \o l[1].bytes \o TokenBytes(Tail(l))

HeadBytes(c) ==
    c.magic \o EncU32(c.version) \o EncU64(c.header_size) \o c.language
    \o EncU64(Len(c.name)) \o c.name
    \o EncU64(Len(c.description)) \o c.description
    \o EncU32(c.model_type)

ParamBlockLen == 8 + 13 * 4

ParamOffset(c) == Len(HeadBytes(c)) + 24 + 16 * c.num_networks + PadLen

BlobBase(c) == ParamOffset(c) + ParamBlockLen + Len(TokenBytes(c.toks))

\* the blobs lie back to back in slots; slot s is 1 or 2 bytes long
SlotSize(s) == 1 + (s % 2)
SlotStart(s) == s + (s \div 2)
BlobRegionLen(c) == SlotStart(c.num_networks)
BlobRegion(c) == [k \in 1..BlobRegionLen(c) |-> 200 + k]

\* the slot the i-th descriptor (from 0) points at
SlotOf(c, i) ==
    CASE c.order = "desc" -> c.num_networks - 1 - i
      [] c.order = "rot"  -> (i + 1) % c.num_networks
      [] OTHER            -> i

Descriptor(c, i) ==
    [offset |-> BlobBase(c) + SlotStart(SlotOf(c, i)),
     size   |-> CASE c.order = "over" /\ i = c.num_networks - 1
                       -> BlobRegionLen(c) - SlotStart(i) + 1
                  [] c.order = "huge" /\ i = 0 -> Huge
                  [] OTHER -> SlotSize(SlotOf(c, i))]

Descriptors(c) == [i \in 1..c.num_networks |-> Descriptor(c, i - 1)]

RECURSIVE DescriptorBytes(_)
DescriptorBytes(d) ==
    IF d = <<>> THEN <<>>
    ELSE EncU64(d[1].offset) \o EncU64(d[1].size) \o DescriptorBytes(Tail(d))

ParamBlockBytes(q) ==
    Zeros(8) \o EncI32(q.batch_size) \o EncI32(q.segment_size)
    \o EncI32(q.segment_step) \o EncI32(q.mel_features)
    \o EncI32(q.sample_rate) \o EncI32(q.frame_shift_ms)
    \o EncI32(q.frame_length_ms) \o EncI32(q.round_pow2)
    \o EncI32(q.mel_low) \o EncI32(q.mel_high) \o EncI32(q.snip_edges)
    \o EncI32(q.token_count) \o EncI32(q.blank_id)

Serialize(c) ==
    HeadBytes(c)
    \o EncU64(ParamOffset(c)) \o EncU64(ParamBlockLen) \o EncU64(c.num_networks)
    \o DescriptorBytes(Descriptors(c))
    \o Zeros(PadLen)
    \o ParamBlockBytes(c.pp)
    \o TokenBytes(c.toks)
    \o BlobRegion(c)

FileOf(c) == Take(Serialize(c), 0, Len(Serialize(c)) - c.cut)

TruncatedContents ==
    { [BaseContent EXCEPT !.cut = k] : k \in 1..Len(Serialize(BaseContent)) }

Contents ==
    HeaderContents \cup SegmentContents \cup RateContents
    \cup VocabSizeContents \cup FrameContents \cup MelContents
    \cup TokenContents \cup TruncatedContents

Entries == {"new", "main"}

(***************************************************************************)
(* The state after construction: the source is open at position 0 and      *)
(* nothing is read.                                                        *)
(***************************************************************************)
Running == [kind |-> "running", why |-> ""]

NoModelType == -1

DefaultPartialParams ==
    [batch_size |-> 0, segment_size |-> 0, segment_step |-> 0,
     mel_features |-> 0, sample_rate |-> 0, frame_shift_ms |-> 0,
     frame_length_ms |-> 0, round_pow2 |-> 0, mel_low |-> 0, mel_high |-> 0,
     snip_edges |-> 0, token_count |-> 0, blank_id |-> 0]

Init ==
    /\ inp \in Contents
    /\ file = FileOf(inp)
    /\ entry \in Entries
    /\ pc = "file_header"
    /\ pos = 0
    /\ result = Running
    /\ file_header = [aprilmdl |-> <<>>, version |-> 0, header_size |-> 0]
    /\ language = <<>>
    /\ name = <<>>
    /\ description = <<>>
    /\ model_type = NoModelType
    /\ meta = [offset |-> 0, size |-> 0, num_networks |-> 0]
    /\ definitions = <<>>
    /\ partial_params = DefaultPartialParams
    /\ tokens = <<>>
    /\ networks = <<>>
    /\ params_returned = FALSE
    /\ ops = <<>>

(***************************************************************************)
(* Primitive reads on the source.                                          *)
(***************************************************************************)
\* read_exact / read_ne of n bytes at position p succeeds
Avail(p, n) == p + n <= Len(file)

ReadOp(what, p, n) ==
    [op |-> "read", what |-> what, at |-> p, len |-> n, ok |-> Avail(p, n)]

SeekOp(what, p) ==
    [op |-> "seek", what |-> what, at |-> p, len |-> 0, ok |-> TRUE]

\* vec![0; n as usize] for a length n read from the source: a negative i32
\* sign-extends to more than isize::MAX and the allocation panics; a u64 of
\* 2^24 or more either fails to allocate or is allocated and never filled
AllocOutcomes(n) ==
    IF n < 0 THEN {"panic"}
    ELSE IF n >= Huge THEN {"panic", "io"}
    ELSE {"ok"}

Err(why) == [kind |-> "err", why |-> why]
Panic(why) == [kind |-> "panic", why |-> why]
Ok == [kind |-> "ok", why |-> ""]

Stop(r) == pc' = "done" /\ result' = r
Goto(l) == pc' = l /\ result' = result

(***************************************************************************)
(* ModelFile::new, lines 204-213 (main, lines 202-211): the header, the    *)
(* language, the two strings, the model type and the parameter metadata.   *)
(***************************************************************************)
ReadFileHeader ==
    /\ pc = "file_header"
    /\ ops' = Append(ops, ReadOp("file_header", pos, 20))
    /\ IF Avail(pos, 20)
       THEN /\ file_header' =
                 [aprilmdl    |-> Take(file, pos, 8),
                  version     |-> DecUnsigned(Take(file, pos + 8, 4)),
                  header_size |-> DecUnsigned(Take(file, pos + 12, 8))]
            /\ pos' = pos + 20
            /\ Goto("lang_header")
       ELSE /\ Stop(Err("io"))
            /\ UNCHANGED <<file_header, pos>>
    /\ UNCHANGED <<file, inp, entry, params_returned, language, name, description, model_type,
                   meta, definitions, partial_params, tokens, networks>>

ReadLanguageHeader ==
    /\ pc = "lang_header"
    /\ ops' = Append(ops, ReadOp("lang_header", pos, 8))
    /\ IF ~Avail(pos, 8)
       THEN Stop(Err("io")) /\ UNCHANGED <<language, pos>>
       ELSE IF ~Utf8Valid(Take(file, pos, 8))
       THEN Stop(Err("utf8")) /\ UNCHANGED <<language, pos>>
       ELSE /\ language' = TrimMatchesNul(Take(file, pos, 8))
            /\ pos' = pos + 8
            /\ Goto("name")
    /\ UNCHANGED <<file, inp, entry, params_returned, file_header, name, description,
                   model_type, meta, definitions, partial_params, tokens,
                   networks>>

\* read_string: what a call at position p can come to
ReadStringOutcomes(p) ==
    IF ~Avail(p, 8)
    THEN { [res |-> Err("io"), str |-> <<>>, pos |-> p,
            ops |-> <<ReadOp("string_len", p, 8)>>] }
    ELSE LET size == DecUnsigned(Take(file, p, 8))
             lenop == ReadOp("string_len", p, 8)
             bufop == ReadOp("string", p + 8, size)
         IN  { IF a = "panic"
               THEN [res |-> Panic("alloc"), str |-> <<>>, pos |-> p,
                     ops |-> <<lenop>>]
               ELSE IF a = "io" \/ ~Avail(p + 8, size)
               THEN [res |-> Err("io"), str |-> <<>>, pos |-> p,
                     ops |-> <<lenop, bufop>>]
               ELSE IF ~Utf8Valid(Take(file, p + 8, size))
               THEN [res |-> Err("utf8"), str |-> <<>>, pos |-> p,
                     ops |-> <<lenop, bufop>>]
               ELSE [res |-> Running, str |-> Take(file, p + 8, size),
                     pos |-> p + 8 + size, ops |-> <<lenop, bufop>>]
               : a \in AllocOutcomes(size) }

ReadName ==
    /\ pc = "name"
    /\ \E o \in ReadStringOutcomes(pos) :
         /\ name' = o.str
         /\ pos' = o.pos
         /\ ops' = ops \o o.ops
         /\ IF o.res = Running THEN Goto("description") ELSE Stop(o.res)
    /\ UNCHANGED <<file, inp, entry, params_returned, file_header, language, description,
                   model_type, meta, definitions, partial_params, tokens,
                   networks>>

ReadDescription ==
    /\ pc = "description"
    /\ \E o \in ReadStringOutcomes(pos) :
         /\ description' = o.str
         /\ pos' = o.pos
         /\ ops' = ops \o o.ops
         /\ IF o.res = Running THEN Goto("model_type") ELSE Stop(o.res)
    /\ UNCHANGED <<file, inp, entry, params_returned, file_header, language, name, model_type,
                   meta, definitions, partial_params, tokens, networks>>

\* #[br(repr = u32)] enum ModelType: the variant whose discriminant was read
HasVariantAny(v) == TRUE
HasVariant(v) == v \in {0, ModelLstmTransducerStateless, ModelMax}

ReadModelType ==
    /\ pc = "model_type"
    /\ ops' = Append(ops, ReadOp("model_type", pos, 4))
    /\ IF ~Avail(pos, 4)
       THEN Stop(Err("io")) /\ UNCHANGED <<model_type, pos>>
       ELSE IF ~HasVariant(DecUnsigned(Take(file, pos, 4)))
       THEN Stop(Err("no_variant_match")) /\ UNCHANGED <<model_type, pos>>
       ELSE /\ model_type' = DecUnsigned(Take(file, pos, 4))
            /\ pos' = pos + 4
            /\ Goto("param_metadata")
    /\ UNCHANGED <<file, inp, entry, params_returned, file_header, language, name, description,
                   meta, definitions, partial_params, tokens, networks>>

ReadParamMetadata ==
    /\ pc = "param_metadata"
    /\ ops' = Append(ops, ReadOp("param_metadata", pos, 24))
    /\ IF Avail(pos, 24)
       THEN /\ meta' = [offset       |-> DecUnsigned(Take(file, pos, 8)),
                        size         |-> DecUnsigned(Take(file, pos + 8, 8)),
                        num_networks |-> DecUnsigned(Take(file, pos + 16, 8))]
            /\ pos' = pos + 24
            /\ Goto("assert_networks")
       ELSE Stop(Err("io")) /\ UNCHANGED <<meta, pos>>
    /\ UNCHANGED <<file, inp, entry, params_returned, file_header, language, name, description,
                   model_type, definitions, partial_params, tokens, networks>>

(***************************************************************************)
(* ParamMetadata::parse.                                                   *)
(***************************************************************************)
NumNetworksOkOffByOne(n) == n <= MAX_NETWORKS + 1
NumNetworksOk(n) == n <= MAX_NETWORKS

AssertNumNetworks ==
    /\ pc = "assert_networks"
    /\ IF NumNetworksOk(meta.num_networks)
       THEN Goto(IF meta.num_networks = 0 THEN "seek_params" ELSE "definitions")
       ELSE Stop(Panic("num_networks"))
    /\ UNCHANGED <<file, inp, entry, params_returned, pos, file_header, language, name,
                   description, model_type, meta, definitions, partial_params,
                   tokens, networks, ops>>

ReadNetworkDefinition ==
    /\ pc = "definitions"
    /\ ops' = Append(ops, ReadOp("definition", pos, 16))
    /\ IF Avail(pos, 16)
       THEN /\ definitions' = Append(definitions,
                 [offset |-> DecUnsigned(Take(file, pos, 8)),
                  size   |-> DecUnsigned(Take(file, pos + 8, 8))])
            /\ pos' = pos + 16
            /\ Goto(IF Len(definitions) + 1 >= meta.num_networks
                    THEN "seek_params" ELSE "definitions")
       ELSE Stop(Err("io")) /\ UNCHANGED <<definitions, pos>>
    /\ UNCHANGED <<file, inp, entry, params_returned, file_header, language, name, description,
                   model_type, meta, partial_params, tokens, networks>>

SeekParams ==
    /\ pc = "seek_params"
    /\ pos' = meta.offset
    /\ ops' = Append(ops, SeekOp("params", meta.offset))
    /\ Goto("partial_params")
    /\ UNCHANGED <<file, inp, entry, params_returned, file_header, language, name, description,
                   model_type, meta, definitions, partial_params, tokens,
                   networks>>

I32At(p, k) == DecI32(Take(file, p + 8 + 4 * k, 4))

ReadPartialParams ==
    /\ pc = "partial_params"
    /\ ops' = Append(ops, ReadOp("partial_params", pos, ParamBlockLen))
    /\ IF Avail(pos, ParamBlockLen)
       THEN /\ partial_params' =
                 [batch_size      |-> I32At(pos, 0),
                  segment_size    |-> I32At(pos, 1),
                  segment_step    |-> I32At(pos, 2),
                  mel_features    |-> I32At(pos, 3),
                  sample_rate     |-> I32At(pos, 4),
                  frame_shift_ms  |-> I32At(pos, 5),
                  frame_length_ms |-> I32At(pos, 6),
                  round_pow2      |-> I32At(pos, 7),
                  mel_low         |-> I32At(pos, 8),
                  mel_high        |-> I32At(pos, 9),
                  snip_edges      |-> I32At(pos, 10),
                  token_count     |-> I32At(pos, 11),
                  blank_id        |-> I32At(pos, 12)]
            /\ pos' = pos + ParamBlockLen
            /\ Goto("assert_params")
       ELSE Stop(Err("io")) /\ UNCHANGED <<partial_params, pos>>
    /\ UNCHANGED <<file, inp, entry, params_returned, file_header, language, name, description,
                   model_type, meta, definitions, tokens, networks>>

\* the assertions of lines 63-88, in the order they are evaluated
BatchSizeOk(p) == p.batch_size = 1

SegmentSizeOk(p) == p.segment_size > 0 /\ p.segment_size < SegmentLimit

SegmentStepOkUnordered(p) == p.segment_step > 0 /\ p.segment_step < SegmentLimit
SegmentStepOk(p) ==
    /\ p.segment_step > 0
    /\ p.segment_step < SegmentLimit
    /\ p.segment_step <= p.segment_size

MelFeaturesOk(p) == p.mel_features > 0 /\ p.mel_features < MelFeaturesLimit

SampleRateOk(p) == p.sample_rate > 0 /\ p.sample_rate < SampleRateLimit

TokenCountOk(p) == p.token_count > 0 /\ p.token_count < TokenCountLimit

BlankIdOkInclusive(p) == p.blank_id >= 0 /\ p.blank_id <= p.token_count
BlankIdOk(p) == p.blank_id >= 0 /\ p.blank_id < p.token_count

FrameShiftOk(p) == p.frame_shift_ms > 0 /\ p.frame_shift_ms <= p.frame_length_ms

FrameLengthOk(p) == p.frame_length_ms > 0 /\ p.frame_length_ms <= FrameLengthMax

MelLowOk(p) == p.mel_low > 0 /\ p.mel_low < p.sample_rate

MelHighOkInclusive(p) == p.mel_high = 0 \/ p.mel_high >= p.mel_low
MelHighOk(p) == p.mel_high = 0 \/ p.mel_high > p.mel_low

FirstFailedAssert(p) ==
    IF ~BatchSizeOk(p) THEN "batch_size"
    ELSE IF ~SegmentSizeOk(p) THEN "segment_size"
    ELSE IF ~SegmentStepOk(p) THEN "segment_step"
    ELSE IF ~MelFeaturesOk(p) THEN "mel_features"
    ELSE IF ~SampleRateOk(p) THEN "sample_rate"
    ELSE IF ~TokenCountOk(p) THEN "token_count"
    ELSE IF ~BlankIdOk(p) THEN "blank_id"
    ELSE IF ~FrameShiftOk(p) THEN "frame_shift_ms"
    ELSE IF ~FrameLengthOk(p) THEN "frame_length_ms"
    ELSE IF ~MelLowOk(p) THEN "mel_low"
    ELSE IF ~MelHighOk(p) THEN "mel_high"
    ELSE "none"

AssertParams ==
    /\ pc = "assert_params"
    /\ IF FirstFailedAssert(partial_params) = "none"
       THEN Goto("tokens")
       ELSE Stop(Panic(FirstFailedAssert(partial_params)))
    /\ UNCHANGED <<file, inp, entry, params_returned, pos, file_header, language, name,
                   description, model_type, meta, definitions, partial_params,
                   tokens, networks, ops>>

\* for _ in 0..partial_params.token_count: the loop is over after n tokens
TokensDoneEarly(n) == n >= partial_params.token_count - 1
TokensDone(n) == n >= partial_params.token_count

\* where the function goes on once the vocabulary is read: model_file.rs
\* reads the networks (line 100), main.rs returns the Params (line 128)
AfterTokens == IF entry = "new" THEN "networks" ELSE "assert_model_type"

\* one turn of the loop of lines 92-98 at position p
ReadTokenOutcomes(p) ==
    IF ~Avail(p, 4)
    THEN { [res |-> Err("io"), str |-> <<>>, pos |-> p,
            ops |-> <<ReadOp("token_len", p, 4)>>] }
    ELSE LET token_len == DecI32(Take(file, p, 4))
             lenop == ReadOp("token_len", p, 4)
             bufop == ReadOp("token", p + 4, token_len)
         IN  { IF a = "panic"
               THEN [res |-> Panic("alloc"), str |-> <<>>, pos |-> p,
                     ops |-> <<lenop>>]
               ELSE IF a = "io" \/ ~Avail(p + 4, token_len)
               THEN [res |-> Err("io"), str |-> <<>>, pos |-> p,
                     ops |-> <<lenop, bufop>>]
               ELSE IF ~Utf8Valid(Take(file, p + 4, token_len))
               THEN [res |-> Err("utf8"), str |-> <<>>, pos |-> p,
                     ops |-> <<lenop, bufop>>]
               ELSE [res |-> Running,
                     str |-> TrimMatchesNul(Take(file, p + 4, token_len)),
                     pos |-> p + 4 + token_len, ops |-> <<lenop, bufop>>]
               : a \in AllocOutcomes(token_len) }

ReadToken ==
    /\ pc = "tokens"
    /\ \E o \in ReadTokenOutcomes(pos) :
         /\ pos' = o.pos
         /\ ops' = ops \o o.ops
         /\ IF o.res = Running
            THEN /\ tokens' = Append(tokens, o.str)
                 /\ Goto(IF TokensDone(Len(tokens) + 1)
                         THEN AfterTokens ELSE "tokens")
                 /\ params_returned' =
                      (TokensDone(Len(tokens) + 1) /\ entry = "main")
            ELSE Stop(o.res) /\ UNCHANGED <<tokens, params_returned>>
    /\ UNCHANGED <<file, inp, entry, file_header, language, name, description,
                   model_type, meta, definitions, partial_params, networks>>

(***************************************************************************)
(* NetworkDefinition::read (Network::read in main.rs).                     *)
(***************************************************************************)
\* the bytes read_exact fills the buffer with, after the seek to d.offset
NetworkBytesNoSeek(d) ==
    IF Avail(pos, d.size) THEN Take(file, pos, d.size) ELSE <<>>
NetworkBytes(d) == Take(file, d.offset, d.size)

NetworkReadOutcomes(d) ==
    LET seekop == SeekOp("network", d.offset)
        bufop  == ReadOp("network", d.offset, d.size)
    IN  { IF a = "panic"
          THEN [res |-> Panic("alloc"), buf |-> <<>>, pos |-> d.offset,
                ops |-> <<seekop>>]
          ELSE IF a = "io" \/ ~Avail(d.offset, d.size)
          THEN [res |-> Err("io"), buf |-> <<>>, pos |-> d.offset,
                ops |-> <<seekop, bufop>>]
          ELSE [res |-> Running, buf |-> NetworkBytes(d),
                pos |-> d.offset + d.size, ops |-> <<seekop, bufop>>]
          : a \in AllocOutcomes(d.size) }

\* model_file.rs lines 100-103: one network of the collect()
NetworkRead ==
    /\ pc = "networks"
    /\ entry = "new"
    /\ Len(networks) < Len(definitions)
    /\ \E o \in NetworkReadOutcomes(definitions[Len(networks) + 1]) :
         /\ pos' = o.pos
         /\ ops' = ops \o o.ops
         /\ IF o.res = Running
            THEN networks' = Append(networks, o.buf) /\ Goto("networks")
            ELSE Stop(o.res) /\ UNCHANGED networks
    /\ UNCHANGED <<file, inp, entry, params_returned, file_header, language, name, description,
                   model_type, meta, definitions, partial_params, tokens>>

\* model_file.rs lines 105-124 and 216-224: Ok(model_file)
ReturnModelFile ==
    /\ pc = "networks"
    /\ entry = "new"
    /\ Len(networks) = Len(definitions)
    /\ Stop(Ok)
    /\ params_returned' = TRUE
    /\ UNCHANGED <<file, inp, entry, pos, file_header, language, name,
                   description, model_type, meta, definitions, partial_params,
                   tokens, networks, ops>>

(***************************************************************************)
(* fn main, lines 223-265.                                                 *)
(***************************************************************************)
AssertModelType ==
    /\ pc = "assert_model_type"
    /\ IF model_type = ModelLstmTransducerStateless
       THEN Goto("environment")
       ELSE Stop(Panic("model_type"))
    /\ UNCHANGED <<file, inp, entry, params_returned, pos, file_header, language, name,
                   description, model_type, meta, definitions, partial_params,
                   tokens, networks, ops>>

\* Environment::builder()...build()?: the runtime's, it may fail
BuildEnvironment ==
    /\ pc = "environment"
    /\ \E built \in BOOLEAN :
         IF built THEN Goto("main_network") ELSE Stop(Err("ort"))
    /\ UNCHANGED <<file, inp, entry, params_returned, pos, file_header, language, name,
                   description, model_type, meta, definitions, partial_params,
                   tokens, networks, ops>>

\* model_file.params.networks[k].read(&mut cursor)?, k = 0, 1, 2
MainNetworkRead ==
    /\ pc = "main_network"
    /\ IF Len(networks) + 1 > Len(definitions)
       THEN Stop(Panic("index")) /\ UNCHANGED <<pos, ops, networks>>
       ELSE \E o \in NetworkReadOutcomes(definitions[Len(networks) + 1]) :
              /\ pos' = o.pos
              /\ ops' = ops \o o.ops
              /\ IF o.res = Running
                 THEN networks' = Append(networks, o.buf) /\ Goto("session")
                 ELSE Stop(o.res) /\ UNCHANGED networks
    /\ UNCHANGED <<file, inp, entry, params_returned, file_header, language, name, description,
                   model_type, meta, definitions, partial_params, tokens>>

\* SessionBuilder...with_model_from_memory(&blob)? and the assert_eq! on the
\* session's inputs and outputs: the runtime's, each may fail
BuildSession ==
    /\ pc = "session"
    /\ \E o \in {"ok", "err", "panic"} :
         IF o = "ok"
         THEN IF Len(networks) = 3 THEN Stop(Ok) ELSE Goto("main_network")
         ELSE IF o = "err" THEN Stop(Err("ort"))
         ELSE Stop(Panic("session_shape"))
    /\ UNCHANGED <<file, inp, entry, params_returned, pos, file_header, language, name,
                   description, model_type, meta, definitions, partial_params,
                   tokens, networks, ops>>

Next ==
    \/ ReadFileHeader
    \/ ReadLanguageHeader
    \/ ReadName
    \/ ReadDescription
    \/ ReadModelType
    \/ ReadParamMetadata
    \/ AssertNumNetworks
    \/ ReadNetworkDefinition
    \/ SeekParams
    \/ ReadPartialParams
    \/ AssertParams
    \/ ReadToken
    \/ NetworkRead
    \/ ReturnModelFile
    \/ AssertModelType
    \/ BuildEnvironment
    \/ MainNetworkRead
    \/ BuildSession

Spec == Init /\ [][Next]_vars

(***************************************************************************)
(* What the format's description calls a well-formed content, stated from  *)
(* the parameter table and the layout, not from the reader.                *)
(***************************************************************************)
TableHolds(p) ==
    /\ p.batch_size = 1
    /\ 0 < p.segment_size /\ p.segment_size < 100
    /\ 0 < p.segment_step /\ p.segment_step < 100
    /\ p.segment_step <= p.segment_size
    /\ 0 < p.mel_features /\ p.mel_features < 256
    /\ 0 < p.sample_rate /\ p.sample_rate < 144000
    /\ 0 < p.token_count /\ p.token_count < 16384
    /\ 0 <= p.blank_id /\ p.blank_id < p.token_count
    /\ 0 < p.frame_shift_ms /\ p.frame_shift_ms <= p.frame_length_ms
    /\ p.frame_length_ms <= 5000
    /\ 0 < p.mel_low /\ p.mel_low < p.sample_rate
    /\ (p.mel_high = 0 \/ p.mel_high > p.mel_low)

WellFormedTokens(c) ==
    /\ c.pp.token_count = Len(c.toks)
    /\ \A k \in 1..Len(c.toks) :
         c.toks[k].len = Len(c.toks[k].bytes) /\ Utf8Valid(c.toks[k].bytes)

WellFormed(c) ==
    /\ c.cut = 0
    /\ c.magic = Magic
    /\ c.model_type \in 0..2
    /\ c.num_networks <= 8
    /\ c.order \in {"asc", "desc", "rot"}
    /\ TableHolds(c.pp)
    /\ WellFormedTokens(c)

Done == pc = "done"

(***************************************************************************)
(* C1.                                                                     *)
(***************************************************************************)
HasBadMagic == Len(file) >= 8 /\ Take(file, 0, 8) # Magic

\* C1 (as claimed): a byte source whose first 8 bytes are not "APRILMDL"
\* never yields a Model Descriptor: the parse fails with BadMagic.
C1_BadMagicNeverParses ==
    HasBadMagic => ~(Done /\ result.kind = "ok") /\ ~params_returned

StepAboveSize(p) ==
    /\ p.batch_size = 1
    /\ 0 < p.segment_size /\ p.segment_size < 100
    /\ p.segment_step > p.segment_size

C4_ReturnedParamsValid ==
    /\ params_returned =>
         /\ TableHolds(partial_params)
         /\ Len(tokens) = partial_params.token_count
         /\ partial_params = inp.pp
    /\ (partial_params.token_count > 0
        /\ partial_params.blank_id = partial_params.token_count) =>
         ~params_returned
    /\ (Done /\ entry = "new" /\ WellFormed(inp)) =>
         result = Ok /\ params_returned

C4_Witness ==
    /\ Done /\ result = Ok /\ params_returned
    /\ partial_params.token_count = 2
    /\ partial_params.blank_id = partial_params.token_count - 1

(***************************************************************************)
(* C5.                                                                     *)
(***************************************************************************)
\* C5: a block with mel_high = 0 never fails the mel_high check, whatever
\* mel_low is, and with the other fields valid it is accepted; a block with
\* mel_high = mel_low never yields Params.
C5_MelHighCheck ==
    /\ partial_params.mel_high = 0 => result # Panic("mel_high")
    /\ (Done /\ entry = "new" /\ inp.pp.mel_high = 0
        /\ WellFormed([inp EXCEPT !.pp.mel_high = inp.pp.mel_low + 1])) =>
         result = Ok
    /\ partial_params.mel_high = partial_params.mel_low =>
         ~params_returned /\ pc \notin {"tokens", "networks"}

C5_Witness ==
    /\ Done /\ result = Panic("mel_high")
    /\ partial_params.mel_high = partial_params.mel_low

(***************************************************************************)
(* C6.                                                                     *)
(***************************************************************************)
\* the vocabulary entry whose length field lies at position p declares more
\* bytes than the source has left (a negative i32 is more than any source has)
Oversized(p) ==
    LET n == DecI32(Take(file, p, 4)) IN n < 0 \/ ~Avail(p + 4, n)

\* C6 (as claimed): a vocabulary entry whose declared i32 length exceeds the
\* bytes remaining in the source, a negative length included, ends the parse
\* in the Truncated error (the io error of read_exact), never in a panic.
C6_OversizedTokenIsTruncated ==
    \A i \in 1..Len(ops) :
        (ops[i].what = "token_len" /\ ops[i].ok /\ Oversized(ops[i].at))
        => (Done /\ result = Err("io"))

(***************************************************************************)
(* C7.                                                                     *)
(***************************************************************************)
\* C7: every blob read is the bytes [offset, offset + size) of the source for
\* the descriptor of its own position, whatever the order of the offsets and
\* whatever was read before it; the descriptors read are those of the file in
\* file order, and a successful ModelFile::new has one blob per descriptor.
C7_BlobsByOwnDescriptor ==
    /\ Len(networks) <= Len(definitions)
    /\ \A i \in 1..Len(definitions) : definitions[i] = Descriptor(inp, i - 1)
    /\ \A i \in 1..Len(networks) :
         /\ Descriptor(inp, i - 1).offset + Len(networks[i]) <= Len(file)
         /\ Len(networks[i]) = Descriptor(inp, i - 1).size
         /\ \A k \in 1..Len(networks[i]) :
              networks[i][k] = file[Descriptor(inp, i - 1).offset + k]
    /\ (Done /\ entry = "new" /\ result = Ok) =>
         Len(networks) = inp.num_networks

C7_Witness ==
    /\ Done /\ entry = "new" /\ result = Ok
    /\ Len(networks) = 3
    /\ definitions[3].offset < definitions[1].offset
    /\ definitions[1].offset < definitions[2].offset

(***************************************************************************)
(* C8.                                                                     *)
(***************************************************************************)
OtherwiseWellFormed(c) == WellFormed([c EXCEPT !.model_type = 1])

C9_TokensTrimmedAtEndOnly ==
    params_returned =>
        /\ Len(tokens) = partial_params.token_count
        /\ Len(tokens) <= Len(inp.toks)
        /\ \A k \in 1..Len(tokens) : tokens[k] = TrimEndNul(inp.toks[k].bytes)

(***************************************************************************)
(* C10.                                                                    *)
(***************************************************************************)
Follows(i) == ops[i].at = ops[i - 1].at + ops[i - 1].len

CountBefore(i, what) ==
    Cardinality({ j \in 1..(i - 1) : ops[j].what = what /\ ops[j].ok })

\* C10: the operations on the source come in one order.  Every descriptor is
\* read where the previous read (the parameter metadata or a descriptor)
\* ended; the seek to the parameter offset comes after num_networks
\* descriptors; the fixed fields are read right after that seek and every
\* token where the previous read ended, with no seek in between; a seek to a
\* blob comes only after token_count tokens; and an operation that failed is
\* the last one, the function being over once it has failed.
C10_OrderOfOperations ==
    /\ result.kind \in {"err", "panic"} => Done
    /\ \A i \in 1..Len(ops) :
        /\ i < Len(ops) => ops[i].ok
        /\ (i = Len(ops) /\ ~ops[i].ok) => (Done /\ result.kind = "err")
        /\ ops[i].what = "definition" =>
             /\ ops[i - 1].what \in {"param_metadata", "definition"}
             /\ Follows(i)
        /\ (ops[i].op = "seek" /\ ops[i].what = "params") =>
             /\ CountBefore(i, "definition") = meta.num_networks
             /\ ops[i - 1].what \in {"param_metadata", "definition"}
             /\ \A j \in 1..(i - 1) : ops[j].op = "read"
             /\ ops[i].at = meta.offset
        /\ ops[i].what = "partial_params" =>
             /\ ops[i - 1].op = "seek" /\ ops[i - 1].what = "params"
             /\ ops[i].at = ops[i - 1].at
        /\ ops[i].what = "token_len" =>
             /\ ops[i - 1].op = "read"
             /\ ops[i - 1].what \in {"partial_params", "token"}
             /\ Follows(i)
        /\ ops[i].what = "token" =>
             ops[i - 1].what = "token_len" /\ Follows(i)
        /\ (ops[i].op = "seek" /\ ops[i].what = "network") =>
             /\ CountBefore(i, "token") = partial_params.token_count
             /\ \A j \in (i + 1)..Len(ops) : ops[j].what = "network"
        /\ (ops[i].op = "read" /\ ops[i].what = "network") =>
             ops[i - 1].op = "seek" /\ ops[i - 1].what = "network"

C10_Witness ==
    /\ Done /\ entry = "new" /\ result = Ok
    /\ Len(definitions) >= 2 /\ Len(tokens) >= 2
    /\ ops[Len(ops)].what = "network"

====
